---- MODULE Spec2Model ----
(***************************************************************************)
(* The Slack bot of main.go: two command handlers ("query for bot -        *)
(* <message>" and "full query for bot - <message>") that send the message  *)
(* to Wit.ai, look the refined search string up in the serialized answer,  *)
(* query Wolfram Alpha and reply.                                          *)
(*                                                                         *)
(* A text is a sequence of tokens, so that concatenation (\o) and          *)
(* containment are those of strings: "Thinking..." is <<"Thinking...">>,   *)
(* the empty string is <<>>.                                               *)
(***************************************************************************)
EXTENDS Integers, Sequences, FiniteSets, TLC

\* ------------------------------------------------------------------ bounds

\* Handler invocations the transport runs concurrently (ConcSpec).
NumInv == 2
\* Entities Wit.ai returns under one entity key.
MaxValues == 2
\* Pods of a Wolfram Alpha query result.
MaxPods == 2
\* Subpods of one pod.
MaxSubPods == 1

Inv == 1..NumInv

\* --------------------------------------------------------------- the texts

ThinkingText == <<"Thinking...">>
NLUUnavailableText == <<"Sorry, I'm having trouble understanding right now.">>
MarshalFailedText == <<"Sorry, I'm having trouble processing the response.">>
SpokenUnavailableText == <<"Sorry, I couldn't get an answer from Wolfram Alpha.">>
FullUnavailableText == <<"Sorry, I couldn't get a full report from Wolfram Alpha.">>
NoAnswerText == <<"Sorry, Wolfram Alpha couldn't find an answer for that.">>

FixedErrorTexts ==
    {NLUUnavailableText, MarshalFailedText, SpokenUnavailableText,
     FullUnavailableText, NoAnswerText}

\* s contains t as a contiguous part (strings.Contains).
Contains(s, t) ==
    \E k \in 0..(Len(s) - Len(t)) : SubSeq(s, k + 1, k + Len(t)) = t

\* ------------------------------------------------- what the transport sends

Commands == {"spoken", "full"}
Messages == {<<"capital", "of", "france">>, <<"asdkjasd">>}

\* ------------------------------------------------------- what Wit.ai returns

WolframKey == "wit$wolfram_search_query:wolfram_search_query"
OtherKey == "wit$location:location"
EntityPath == <<"entities", WolframKey, "0", "value">>

EntityValues == {<<"population", "of", "paris">>, <<>>}

RECURSIVE SeqsUpTo(_, _)
SeqsUpTo(S, n) ==
    IF n = 0 THEN {<<>>}
    ELSE LET shorter == SeqsUpTo(S, n - 1)
         IN  shorter \cup {Append(s, x) : s \in shorter, x \in S}

Entities == {[value |-> v] : v \in EntityValues}
EntityLists == SeqsUpTo(Entities, MaxValues)

\* The entities map of a MessageResponse: no key, the expected key (with any
\* list of entities, the empty one too), or another key only.
EntityMaps ==
    {<<>>}
    \cup {WolframKey :> l : l \in EntityLists}
    \cup {OtherKey :> <<[value |-> <<"paris">>]>>}

NoMsg == [nil |-> TRUE]
MessageResponses(q) == {[text |-> q, entities |-> m] : m \in EntityMaps}

\* client.Parse: an error, or a message response.
ParseOutcomes(q) ==
    {[err |-> TRUE, msg |-> NoMsg]}
    \cup {[err |-> FALSE, msg |-> m] : m \in MessageResponses(q)}

\* A few of them, for the concurrent specification.
ConcParseOutcomes(q) ==
    {[err |-> TRUE, msg |-> NoMsg],
     [err |-> FALSE,
      msg |-> [text |-> q,
               entities |-> WolframKey :> <<[value |-> <<"population", "of", "paris">>]>>]]}

\* ------------------------------------------------- JSON and the gjson lookup

JNull == [t |-> "null"]
JStr(s) == [t |-> "str", v |-> s]
JArr(a) == [t |-> "arr", v |-> a]
JObj(o) == [t |-> "obj", v |-> o]
\* string(data[:]) of the nil slice json.MarshalIndent returns with an error.
EmptyDoc == [t |-> "empty"]

\* json.MarshalIndent(msg, "", "    ") when it succeeds: a nil *MessageResponse
\* is null, a response is an object whose "entities" hold, per key, the array
\* of entity objects.
MarshalIndent(m) ==
    IF m = NoMsg THEN JNull
    ELSE JObj("text" :> JStr(m.text) @@
              "entities" :>
                  JObj([k \in DOMAIN m.entities |->
                          JArr([n \in DOMAIN m.entities[k] |->
                                  JObj("value" :> JStr(m.entities[k][n].value))])]))

\* A path component that is an array index, and the index (0-based).
IsIndex(c) == c \in {"0", "1", "2", "3"}
IndexOf(c) == CASE c = "0" -> 0 [] c = "1" -> 1 [] c = "2" -> 2 [] OTHER -> 3

NotExists == [exists |-> FALSE, str |-> <<>>]

\* gjson.Get(json, path): descend one component at a time; an object component
\* is an exact, case-sensitive key, an array component a 0-based index.
RECURSIVE GjsonGet(_, _)
GjsonGet(j, path) ==
    IF path = <<>>
    THEN [exists |-> j.t # "empty",
          str |-> IF j.t = "str" THEN j.v ELSE <<>>]
    ELSE LET c == Head(path)
         IN  CASE j.t = "obj" ->
                    IF c \in DOMAIN j.v THEN GjsonGet(j.v[c], Tail(path))
                    ELSE NotExists
               [] j.t = "arr" ->
                    IF IsIndex(c) /\ IndexOf(c) + 1 \in DOMAIN j.v
                    THEN GjsonGet(j.v[IndexOf(c) + 1], Tail(path))
                    ELSE NotExists
               [] OTHER -> NotExists

\* ------------------------------------------------ what Wolfram Alpha returns

SpokenAnswers == {<<"Paris">>, <<"No", "spoken", "result", "available">>}
SpokenOutcomes ==
    {[err |-> TRUE, res |-> <<>>]} \cup {[err |-> FALSE, res |-> a] : a \in SpokenAnswers}
ConcSpokenOutcomes == {[err |-> TRUE, res |-> <<>>], [err |-> FALSE, res |-> <<"Paris">>]}

PodTitles == {<<"Weather">>, <<"Thinking...">>}
Plaintexts == {<<"72", "F">>}
SubPodChoices == {[Plaintext |-> p] : p \in Plaintexts}
PodChoices ==
    {[Title |-> t, SubPods |-> s] : t \in PodTitles, s \in SeqsUpTo(SubPodChoices, MaxSubPods)}
\* res.Success is compared with a string: "true", "false", or anything else
\* the attribute may hold (here the empty string of an absent attribute).
SuccessFlags == {"true", "false", ""}
QueryResults == {[Success |-> s, Pods |-> p] : s \in SuccessFlags, p \in SeqsUpTo(PodChoices, MaxPods)}

NoResult == [nil |-> TRUE]
FullOutcomes ==
    {[err |-> TRUE, res |-> NoResult]} \cup {[err |-> FALSE, res |-> r] : r \in QueryResults}

ConcPod(t, s) == [Title |-> t, SubPods |-> s]
ConcFullOutcomes ==
    {[err |-> TRUE, res |-> NoResult],
     [err |-> FALSE, res |-> [Success |-> "false", Pods |-> <<>>]],
     [err |-> FALSE,
      res |-> [Success |-> "true",
               Pods |-> <<ConcPod(<<"Input">>, <<[Plaintext |-> <<"weather">>]>>),
                          ConcPod(<<"Weather">>, <<[Plaintext |-> <<"72", "F">>]>>)>>]],
     [err |-> FALSE,
      res |-> [Success |-> "true",
               Pods |-> <<ConcPod(<<"Input">>, <<>>), ConcPod(<<"Weather">>, <<>>)>>]]}

\* ------------------------------------------------------------------- state

VARIABLES
    mainPc,     \* where main is: "start", "clients", "registered", "listening"
    handles,    \* bot, client and the package-level wolframClient: "nil" or "set"
    crashed,    \* the process died of an unrecovered panic
    pc,         \* per invocation: where its handler is
    cmd,        \* per invocation: the command matched ("none" before dispatch)
    query,      \* per invocation: request.Param("message")
    msg,        \* per invocation: the response of client.Parse
    rough,      \* per invocation: the serialized response
    answer,     \* per invocation: the string sent to Wolfram Alpha
    res,        \* per invocation: the result of the Wolfram Alpha call
    events      \* per invocation: what the handler did, in order

vars == <<mainPc, handles, crashed, pc, cmd, query, msg, rough, answer, res, events>>

\* One entry of an invocation's history: a reply, a log line, a collaborator
\* call (with its argument and whether it succeeded) or the serialization.
Event(kind, arg, ok) == [kind |-> kind, arg |-> arg, ok |-> ok]
Reply(text) == Event("reply", text, TRUE)
Log(what) == Event("log", <<what>>, TRUE)

Init ==
    /\ mainPc = "start"
    /\ handles = [bot |-> "nil", client |-> "nil", wolframClient |-> "nil"]
    /\ crashed = FALSE
    /\ pc = [i \in Inv |-> "idle"]
    /\ cmd = [i \in Inv |-> "none"]
    /\ query = [i \in Inv |-> <<>>]
    /\ msg = [i \in Inv |-> NoMsg]
    /\ rough = [i \in Inv |-> EmptyDoc]
    /\ answer = [i \in Inv |-> <<>>]
    /\ res = [i \in Inv |-> NoResult]
    /\ events = [i \in Inv |-> <<>>]

\* ------------------------------------------------------------------- main

\* main, lines 35-37: the three clients, wolframClient the package-level one.
NewClients ==
    /\ ~crashed
    /\ mainPc = "start"
    /\ handles' = [bot |-> "set", client |-> "set", wolframClient |-> "set"]
    /\ mainPc' = "clients"
    /\ UNCHANGED <<crashed, pc, cmd, query, msg, rough, answer, res, events>>

\* main, lines 40-128: the two bot.Command registrations.
RegisterCommands ==
    /\ ~crashed
    /\ mainPc = "clients"
    /\ mainPc' = "registered"
    /\ UNCHANGED <<handles, crashed, pc, cmd, query, msg, rough, answer, res, events>>

\* main, line 133: bot.Listen; from here on the transport runs handlers.
Listen ==
    /\ ~crashed
    /\ mainPc = "registered"
    /\ mainPc' = "listening"
    /\ UNCHANGED <<handles, crashed, pc, cmd, query, msg, rough, answer, res, events>>

\* ------------------------------------------------- pieces of the handlers

Emit(i, evs) == events' = [events EXCEPT ![i] = @ \o evs]
Goto(i, label) == pc' = [pc EXCEPT ![i] = label]

\* A mutant: answer kept in one package-level variable all handlers write.
SetAnswerShared(i, v) == answer' = [j \in Inv |-> v]

\* answer is a variable of the handler's own call.
SetAnswer(i, v) == answer' = [answer EXCEPT ![i] = v]

\* A mutant: no acknowledgement before the Wit.ai call.
ThinkingAckMissing == <<>>

\* response.Reply("Thinking...")
ThinkingAck == <<Reply(ThinkingText)>>

\* A mutant: the failure of client.Parse is logged and not replied to.
ParseFailedNoReply == <<Log("error calling Wit.ai")>>

\* The branch of a failed client.Parse: log and reply.
ParseFailed == <<Log("error calling Wit.ai"), Reply(NLUUnavailableText)>>

\* A mutant: the branch lacks its return and falls through to the serialization.
AfterParseErrorFallthrough == "marshal"

\* The return that ends the branch of a failed client.Parse.
AfterParseError == "done"

\* The branch of a failed json.MarshalIndent in the spoken handler.
MarshalFailed == <<Log("error marshalling wit.ai response"), Reply(MarshalFailedText)>>

\* The branches of a failed Wolfram Alpha call.
SpokenQueryFailed == <<Log("wolfram query failed"), Reply(SpokenUnavailableText)>>
FullQueryFailed == <<Log("wolfram full query failed"), Reply(FullUnavailableText)>>

\* The branch of a result without an answer.
NoAnswer == <<Reply(NoAnswerText)>>

\* value := gjson.Get(rough, path); answer := query; if value.Exists() {
\* answer = value.String() }
RefinedQuery(q, doc) ==
    LET value == GjsonGet(doc, EntityPath)
    IN  IF value.exists THEN value.str ELSE q

\* The guard before the formatting: res.Success == "false" || len(res.Pods) < 2
Unusable(r) == r.Success = "false" \/ Len(r.Pods) < 2

\* The code fence of Slack's markup, three backquotes, as one token.
CodeFence == <<"[code fence]">>

\* "*%s*\n" of the title, then the first subpod's plaintext between code fences.
FormatPod(pod) ==
    <<"*">> \o pod.Title \o <<"*\n">> \o CodeFence \o pod.SubPods[1].Plaintext \o CodeFence

\* ------------------------------------------------------------ the transport

\* The transport matches a command and runs its handler, which reads the
\* message parameter (lines 44 and 83).
Dispatch(i, c, m) ==
    /\ ~crashed
    /\ mainPc = "listening"
    /\ pc[i] = "idle"
    /\ cmd' = [cmd EXCEPT ![i] = c]
    /\ query' = [query EXCEPT ![i] = m]
    /\ Goto(i, IF c = "full" THEN "thinking" ELSE "parse")
    /\ UNCHANGED <<mainPc, handles, crashed, msg, rough, answer, res, events>>

\* ---------------------------------------- handler of "query for bot - <message>"

\* Lines 46-53.
SpokenParse(i, out) ==
    /\ ~crashed
    /\ cmd[i] = "spoken" /\ pc[i] = "parse"
    /\ IF out.err
       THEN /\ Emit(i, <<Event("nlu", query[i], FALSE)>> \o ParseFailed)
            /\ Goto(i, AfterParseError)
            /\ UNCHANGED msg
       ELSE /\ Emit(i, <<Event("nlu", query[i], TRUE)>>)
            /\ Goto(i, "marshal")
            /\ msg' = [msg EXCEPT ![i] = out.msg]
    /\ UNCHANGED <<mainPc, handles, crashed, cmd, query, rough, answer, res>>

\* Lines 55-67: serialize, and on success look the refined query up.
SpokenMarshal(i, ok) ==
    /\ ~crashed
    /\ cmd[i] = "spoken" /\ pc[i] = "marshal"
    /\ IF ok
       THEN /\ Emit(i, <<Event("marshal", <<>>, TRUE)>>)
            /\ rough' = [rough EXCEPT ![i] = MarshalIndent(msg[i])]
            /\ SetAnswer(i, RefinedQuery(query[i], MarshalIndent(msg[i])))
            /\ Goto(i, "query")
       ELSE /\ Emit(i, <<Event("marshal", <<>>, FALSE)>> \o MarshalFailed)
            /\ Goto(i, "done")
            /\ UNCHANGED <<rough, answer>>
    /\ UNCHANGED <<mainPc, handles, crashed, cmd, query, msg, res>>

\* Lines 69-75.
SpokenQuery(i, out) ==
    /\ ~crashed
    /\ cmd[i] = "spoken" /\ pc[i] = "query"
    /\ IF out.err
       THEN /\ Emit(i, <<Event("knowledge", answer[i], FALSE)>> \o SpokenQueryFailed)
            /\ UNCHANGED res
       ELSE /\ Emit(i, <<Event("knowledge", answer[i], TRUE), Reply(out.res)>>)
            /\ res' = [res EXCEPT ![i] = [Spoken |-> out.res]]
    /\ Goto(i, "done")
    /\ UNCHANGED <<mainPc, handles, crashed, cmd, query, msg, rough, answer>>

\* ----------------------------------- handler of "full query for bot - <message>"

\* Line 86.
FullThinking(i) ==
    /\ ~crashed
    /\ cmd[i] = "full" /\ pc[i] = "thinking"
    /\ Emit(i, ThinkingAck)
    /\ Goto(i, "parse")
    /\ UNCHANGED <<mainPc, handles, crashed, cmd, query, msg, rough, answer, res>>

\* Lines 88-95.
FullParse(i, out) ==
    /\ ~crashed
    /\ cmd[i] = "full" /\ pc[i] = "parse"
    /\ IF out.err
       THEN /\ Emit(i, <<Event("nlu", query[i], FALSE)>> \o ParseFailed)
            /\ Goto(i, AfterParseError)
            /\ UNCHANGED msg
       ELSE /\ Emit(i, <<Event("nlu", query[i], TRUE)>>)
            /\ Goto(i, "marshal")
            /\ msg' = [msg EXCEPT ![i] = out.msg]
    /\ UNCHANGED <<mainPc, handles, crashed, cmd, query, rough, answer, res>>

\* Lines 97-103: the error of json.MarshalIndent is discarded; with it data is
\* nil and rough the empty string.
FullMarshal(i, ok) ==
    /\ ~crashed
    /\ cmd[i] = "full" /\ pc[i] = "marshal"
    /\ LET doc == IF ok THEN MarshalIndent(msg[i]) ELSE EmptyDoc
       IN  /\ rough' = [rough EXCEPT ![i] = doc]
           /\ SetAnswer(i, RefinedQuery(query[i], doc))
    /\ Emit(i, <<Event("marshal", <<>>, ok)>>)
    /\ Goto(i, "query")
    /\ UNCHANGED <<mainPc, handles, crashed, cmd, query, msg, res>>

\* Lines 106-111.
FullQuery(i, out) ==
    /\ ~crashed
    /\ cmd[i] = "full" /\ pc[i] = "query"
    /\ IF out.err
       THEN /\ Emit(i, <<Event("knowledge", answer[i], FALSE)>> \o FullQueryFailed)
            /\ Goto(i, "done")
            /\ UNCHANGED res
       ELSE /\ Emit(i, <<Event("knowledge", answer[i], TRUE)>>)
            /\ Goto(i, "validate")
            /\ res' = [res EXCEPT ![i] = out.res]
    /\ UNCHANGED <<mainPc, handles, crashed, cmd, query, msg, rough, answer>>

\* Lines 113-116.
FullValidate(i) ==
    /\ ~crashed
    /\ cmd[i] = "full" /\ pc[i] = "validate"
    /\ IF Unusable(res[i])
       THEN Emit(i, NoAnswer) /\ Goto(i, "done")
       ELSE Goto(i, "format") /\ UNCHANGED events
    /\ UNCHANGED <<mainPc, handles, crashed, cmd, query, msg, rough, answer, res>>

\* Lines 121-126. pod.SubPods[0] of a pod without subpods is an index out of
\* range: the handler's goroutine panics, and the process dies with it unless
\* the transport recovers the panic.
FullFormat(i) ==
    /\ ~crashed
    /\ cmd[i] = "full" /\ pc[i] = "format"
    /\ LET pod == res[i].Pods[2]
       IN  IF Len(pod.SubPods) = 0
           THEN /\ Goto(i, "panic")
                /\ crashed' \in BOOLEAN
                /\ UNCHANGED events
           ELSE /\ Emit(i, <<Reply(FormatPod(pod))>>)
                /\ Goto(i, "done")
                /\ UNCHANGED crashed
    /\ UNCHANGED <<mainPc, handles, cmd, query, msg, rough, answer, res>>

\* ---------------------------------------------------------- specifications

Main == NewClients \/ RegisterCommands \/ Listen

\* One invocation, every outcome of the collaborators.
Next ==
    \/ Main
    \/ \E c \in Commands, m \in Messages : Dispatch(1, c, m)
    \/ \E out \in ParseOutcomes(query[1]) : SpokenParse(1, out)
    \/ \E ok \in BOOLEAN : SpokenMarshal(1, ok)
    \/ \E out \in SpokenOutcomes : SpokenQuery(1, out)
    \/ FullThinking(1)
    \/ \E out \in ParseOutcomes(query[1]) : FullParse(1, out)
    \/ \E ok \in BOOLEAN : FullMarshal(1, ok)
    \/ \E out \in FullOutcomes : FullQuery(1, out)
    \/ FullValidate(1)
    \/ FullFormat(1)

Spec == Init /\ [][Next]_vars

\* NumInv invocations in any interleaving, a few outcomes of the collaborators.
ConcNext ==
    \/ Main
    \/ \E i \in Inv :
        \/ \E c \in Commands, m \in Messages : Dispatch(i, c, m)
        \/ \E out \in ConcParseOutcomes(query[i]) : SpokenParse(i, out)
        \/ \E ok \in BOOLEAN : SpokenMarshal(i, ok)
        \/ \E out \in ConcSpokenOutcomes : SpokenQuery(i, out)
        \/ FullThinking(i)
        \/ \E out \in ConcParseOutcomes(query[i]) : FullParse(i, out)
        \/ \E ok \in BOOLEAN : FullMarshal(i, ok)
        \/ \E out \in ConcFullOutcomes : FullQuery(i, out)
        \/ FullValidate(i)
        \/ FullFormat(i)

ConcSpec == Init /\ [][ConcNext]_vars

\* --------------------------------------------------- reading the history

Indices(i) == DOMAIN events[i]
Replies(i) == SelectSeq(events[i], LAMBDA e : e.kind = "reply")
EventsOf(i, kind) == {k \in Indices(i) : events[i][k].kind = kind}
Failed(i, kind) == \E k \in EventsOf(i, kind) : ~events[i][k].ok
LastEvent(i) == events[i][Len(events[i])]
Returned(i) == pc[i] = "done"

\* The structured report the specification calls usable.
Usable(r) == r.Success = "true" /\ Len(r.Pods) >= 2

\* The first value Wit.ai returned under the expected entity key, if any.
HasEntity(m) == WolframKey \in DOMAIN m.entities /\ Len(m.entities[WolframKey]) >= 1
FirstEntity(m) == m.entities[WolframKey][1].value

\* ---------------------------------------------------------------- claims

\* C1 (as stated): every invocation of either command calls reply exactly
\* once over its whole run.
C1_ReplyExactlyOnce ==
    \A i \in Inv : Returned(i) => Len(Replies(i)) = 1

\* C1 (amended): the spoken handler replies at most once, and exactly once
\* when it returns; the full handler replies at most twice, "Thinking..."
\* first, and exactly twice when it returns.
C1_RepliesPerCommand ==
    \A i \in Inv :
        /\ cmd[i] = "spoken" =>
              /\ Len(Replies(i)) <= 1
              /\ Returned(i) => Len(Replies(i)) = 1
        /\ cmd[i] = "full" =>
              /\ Len(Replies(i)) <= 2
              /\ Len(Replies(i)) >= 1 => Replies(i)[1].arg = ThinkingText
              /\ Returned(i) => Len(Replies(i)) = 2

C1_Witness ==
    \E i \in Inv :
        /\ cmd[i] = "full" /\ Returned(i)
        /\ Len(Replies(i)) = 2
        /\ Replies(i)[2].arg = NoAnswerText

\* C2: every invocation ends with a terminal reply (the answer or a fixed
\* error text) and returns normally; the handler never ends abnormally.
C2_NeverEndsAbnormally ==
    \A i \in Inv :
        /\ pc[i] # "panic"
        /\ Returned(i) => LastEvent(i).kind = "reply"

\* C3: the formatting step of the full handler is reached only with a report
\* that has success = true and at least 2 sections; any other report is
\* answered with the KnowledgeNoAnswer text.
C3_FormatOnlyUsable ==
    \A i \in Inv :
        /\ pc[i] = "format" => Usable(res[i])
        /\ (cmd[i] = "full" /\ Returned(i) /\ res[i] # NoResult /\ ~Usable(res[i]))
              => LastEvent(i) = Reply(NoAnswerText)

\* C4: the failure kind determines the terminal reply: a failed Wit.ai call or
\* a failed serialization gives the NLUUnavailable text, a failed Wolfram
\* Alpha call the KnowledgeUnavailable text of the mode, an unusable report the
\* KnowledgeNoAnswer text.
C4_FailureKindDeterminesReply ==
    \A i \in Inv :
        Returned(i) =>
            /\ (Failed(i, "nlu") \/ Failed(i, "marshal"))
                  => LastEvent(i) = Reply(NLUUnavailableText)
            /\ Failed(i, "knowledge") =>
                  LastEvent(i) = Reply(IF cmd[i] = "spoken" THEN SpokenUnavailableText
                                       ELSE FullUnavailableText)
            /\ (cmd[i] = "full" /\ res[i] # NoResult /\ ~Usable(res[i])
                  /\ ~Failed(i, "marshal"))
                  => LastEvent(i) = Reply(NoAnswerText)

\* C5: whenever the Wit.ai call succeeded, the string passed to Wolfram Alpha
\* is the first value under the expected entity key when there is one, and
\* the original message otherwise.
C5_RefinedQueryFromEntity ==
    \A i \in Inv :
        \A k \in EventsOf(i, "knowledge") :
            msg[i] # NoMsg =>
                events[i][k].arg =
                    IF HasEntity(msg[i]) THEN FirstEntity(msg[i]) ELSE query[i]

\* C6: a non-empty message gives a non-empty string passed to Wolfram Alpha.
C6_RefinedQueryNonEmpty ==
    \A i \in Inv :
        \A k \in EventsOf(i, "knowledge") :
            query[i] # <<>> => events[i][k].arg # <<>>

\* C7 (as stated): in the full handler "Thinking..." is the first event, and
\* no later reply is or contains "Thinking...".
C7_ThinkingNeverInTerminal ==
    \A i \in Inv :
        cmd[i] = "full" =>
            /\ events[i] # <<>> => events[i][1] = Reply(ThinkingText)
            /\ \A k \in EventsOf(i, "reply") :
                  k > 1 => ~Contains(events[i][k].arg, ThinkingText)

\* C7 (amended): in the full handler "Thinking..." is the first event, before
\* the Wit.ai call, the Wolfram Alpha call and every other reply; a later reply
\* is never the "Thinking..." text itself, and contains it only when it is the
\* report of a pod whose title or first plaintext contains it.
C7_ThinkingFirst ==
    \A i \in Inv :
        cmd[i] = "full" =>
            /\ events[i] # <<>> => events[i][1] = Reply(ThinkingText)
            /\ \A k \in EventsOf(i, "reply") :
                  k > 1 =>
                      /\ events[i][k].arg # ThinkingText
                      /\ Contains(events[i][k].arg, ThinkingText) =>
                            /\ res[i] # NoResult /\ Len(res[i].Pods) >= 2
                            /\ events[i][k].arg = FormatPod(res[i].Pods[2])
                            /\ \/ Contains(res[i].Pods[2].Title, ThinkingText)
                               \/ Contains(res[i].Pods[2].SubPods[1].Plaintext, ThinkingText)

C7_Witness ==
    \E i \in Inv :
        /\ cmd[i] = "full" /\ Returned(i)
        /\ Len(events[i]) > 1
        /\ events[i][1] = Reply(ThinkingText)
        /\ LastEvent(i).kind = "reply"
        /\ Contains(LastEvent(i).arg, ThinkingText)

\* C8: Wit.ai is called at most once, Wolfram Alpha at most once and only
\* after a successful Wit.ai call; after a failed call there is no further
\* call: the handler logs, sends the fixed error reply and returns.
C8_NoRetry ==
    \A i \in Inv :
        /\ Cardinality(EventsOf(i, "nlu")) <= 1
        /\ Cardinality(EventsOf(i, "knowledge")) <= 1
        /\ \A k \in EventsOf(i, "knowledge") :
              \E n \in EventsOf(i, "nlu") : n < k /\ events[i][n].ok
        /\ \A k \in EventsOf(i, "nlu") \cup EventsOf(i, "knowledge") :
              ~events[i][k].ok =>
                  /\ Returned(i)
                  /\ Len(events[i]) = k + 2
                  /\ events[i][k + 1].kind = "log"
                  /\ events[i][k + 2].kind = "reply"
                  /\ events[i][k + 2].arg \in FixedErrorTexts

C8_Witness ==
    \E i \in Inv :
        /\ Returned(i)
        /\ \E n \in EventsOf(i, "nlu") : events[i][n].ok
        /\ Failed(i, "knowledge")

\* C9: on every failure path (Wit.ai call, serialization, Wolfram Alpha call,
\* unusable report) the handler logs, sends a fixed error reply and does not
\* go on with the failed step's result.
C9_FailuresLoggedAndReplied ==
    \A i \in Inv :
        Returned(i) =>
            LET failure ==
                    \/ Failed(i, "nlu") \/ Failed(i, "marshal") \/ Failed(i, "knowledge")
                    \/ cmd[i] = "full" /\ res[i] # NoResult /\ ~Usable(res[i])
            IN  failure =>
                    /\ EventsOf(i, "log") # {}
                    /\ LastEvent(i).kind = "reply"
                    /\ LastEvent(i).arg \in FixedErrorTexts
                    /\ Failed(i, "marshal") => EventsOf(i, "knowledge") = {}

\* C10: the collaborator handles are set before any handler runs and never
\* written afterwards; a step of one invocation leaves every other
\* invocation's state alone; and two invocations at the same point with the
\* same message and the same collaborator responses have sent the same replies.
HandlesSetBeforeHandlers ==
    (\E i \in Inv : pc[i] # "idle") =>
        /\ mainPc = "listening"
        /\ \A h \in DOMAIN handles : handles[h] = "set"

HandlesWrittenOnce == mainPc # "start" => handles' = handles

OwnStateOnly ==
    \A j \in Inv :
        pc'[j] = pc[j] =>
            /\ cmd'[j] = cmd[j] /\ query'[j] = query[j] /\ msg'[j] = msg[j]
            /\ rough'[j] = rough[j] /\ answer'[j] = answer[j] /\ res'[j] = res[j]
            /\ events'[j] = events[j]

Responses(i) ==
    <<msg[i], res[i],
      SelectSeq(events[i], LAMBDA e : e.kind \in {"nlu", "marshal", "knowledge"})>>

RepliesDependOnOwnInputs ==
    \A i, j \in Inv :
        (pc[i] = pc[j] /\ cmd[i] = cmd[j] /\ query[i] = query[j]
            /\ Responses(i) = Responses(j))
            => Replies(i) = Replies(j)

C10_NoSharedMutableState ==
    /\ [](HandlesSetBeforeHandlers /\ RepliesDependOnOwnInputs)
    /\ [][HandlesWrittenOnce /\ OwnStateOnly]_vars

C10_Witness ==
    \E i, j \in Inv :
        /\ i # j
        /\ Returned(i) /\ Returned(j)
        /\ cmd[i] = cmd[j] /\ query[i] = query[j] /\ Responses(i) = Responses(j)
        /\ Len(Replies(i)) >= 1

====
